---- MODULE Spec2Model ----
(***************************************************************************)
(* Model of the static site builder scripts/build.py (class SiteBuilder).  *)
(*                                                                         *)
(* Python strings are modelled as sequences of one-character strings, so   *)
(* that lower(), the slug regular expression, strptime and the raw string  *)
(* comparison of the sort are computed character by character.  A row of  *)
(* a CSV file (a dict of csv.DictReader) is a function from column names   *)
(* to strings; the extra key "line" is the row's number in the file and    *)
(* stands for the identity of the dict object.                             *)
(***************************************************************************)
EXTENDS Integers, Sequences, FiniteSets, TLC

(***************************************************************************)
(* Characters, in ascending code point order (ASCII subset).               *)
(***************************************************************************)
Chars ==
    << " ", "!", "-",
       "0", "1", "2", "3", "4", "5", "6", "7", "8", "9",
       "A", "B", "C", "D", "E", "F", "G", "H", "I", "J", "K", "L", "M",
       "N", "O", "P", "Q", "R", "S", "T", "U", "V", "W", "X", "Y", "Z",
       "a", "b", "c", "d", "e", "f", "g", "h", "i", "j", "k", "l", "m",
       "n", "o", "p", "q", "r", "s", "t", "u", "v", "w", "x", "y", "z" >>

\* Position of a character in Chars: the order Python compares characters by.
CodeTable == [c \in {Chars[k] : k \in DOMAIN Chars} |-> CHOOSE k \in DOMAIN Chars : Chars[k] = c]

Code(c) == CodeTable[c]

Digits == {"0", "1", "2", "3", "4", "5", "6", "7", "8", "9"}

DigitVal(c) == Code(c) - Code("0")

UpperCase == {Chars[k] : k \in CodeTable["A"]..CodeTable["Z"]}

LowerCase == {Chars[k] : k \in CodeTable["a"]..CodeTable["z"]}

\* The class [a-z0-9] of the slug expression.
IsLowerAlnum(c) == c \in Digits \/ c \in LowerCase

\* str.lower() on one character and on a string.
LowerTable == [c \in UpperCase |-> Chars[CodeTable[c] + (CodeTable["a"] - CodeTable["A"])]]

LowerChar(c) == IF c \in UpperCase THEN LowerTable[c] ELSE c

Lower(s) == [k \in DOMAIN s |-> LowerChar(s[k])]

\* Python's  a < b  on strings: lexicographic by code point, a proper prefix
\* is smaller.
RECURSIVE StrLess(_, _)
StrLess(a, b) ==
    IF b = << >> THEN FALSE
    ELSE IF a = << >> THEN TRUE
    ELSE IF Head(a) = Head(b) THEN StrLess(Tail(a), Tail(b))
    ELSE Code(Head(a)) < Code(Head(b))

\* The value None.  It is no string: a string holds one-character elements.
None == << "None" >>

\* dict.get(key, default)
Get(row, key, default) == IF key \in DOMAIN row THEN row[key] ELSE default

\* Truth value of a dict.get result: None and the empty string are false.
Truthy(v) == v # None /\ v # << >>

(***************************************************************************)
(* Slug: re.sub(r'[^a-z0-9]+', '-', title.lower()).strip('-')              *)
(***************************************************************************)
RECURSIVE DropRun(_)
DropRun(s) ==
    IF s # << >> /\ ~IsLowerAlnum(Head(s)) THEN DropRun(Tail(s)) ELSE s

\* re.sub(r'[^a-z0-9]+', '-', s): every maximal run becomes one hyphen.
RECURSIVE SubRuns(_)
SubRuns(s) ==
    IF s = << >> THEN << >>
    ELSE IF IsLowerAlnum(Head(s)) THEN << Head(s) >> \o SubRuns(Tail(s))
    ELSE << "-" >> \o SubRuns(DropRun(Tail(s)))

RECURSIVE LStrip(_)
LStrip(s) == IF s # << >> /\ Head(s) = "-" THEN LStrip(Tail(s)) ELSE s

RECURSIVE RStrip(_)
RStrip(s) ==
    IF s # << >> /\ s[Len(s)] = "-" THEN RStrip(SubSeq(s, 1, Len(s) - 1)) ELSE s

\* str.strip('-')
Strip(s) == RStrip(LStrip(s))

Slug(title) == Strip(SubRuns(Lower(title)))

(***************************************************************************)
(* datetime.strptime(s, '%Y-%m-%d').date()                                 *)
(* The format compiles to the regular expression                           *)
(*   (\d\d\d\d)-(1[0-2]|0[1-9]|[1-9])-(3[01]|[12]\d|0[1-9]|[1-9]| [1-9])   *)
(* which must match the whole string; the groups hold no hyphen, so the    *)
(* string splits at its hyphens into exactly three fields.  The date       *)
(* constructor then rejects year 0 and a day past the month's end.         *)
(***************************************************************************)
ValueError == << >>

\* s.split('-')
RECURSIVE Split(_, _)
Split(s, cur) ==
    IF s = << >> THEN << cur >>
    ELSE IF Head(s) = "-" THEN << cur >> \o Split(Tail(s), << >>)
    ELSE Split(Tail(s), Append(cur, Head(s)))

AllDigits(f) == \A k \in DOMAIN f : f[k] \in Digits

RECURSIVE Num(_)
Num(f) == IF f = << >> THEN 0 ELSE 10 * Num(SubSeq(f, 1, Len(f) - 1)) + DigitVal(f[Len(f)])

YearField(f) == Len(f) = 4 /\ AllDigits(f)

MonthField(f) == /\ Len(f) \in {1, 2}
                 /\ AllDigits(f)
                 /\ Num(f) \in 1..12

DayField(f) == \/ /\ Len(f) \in {1, 2}
                  /\ AllDigits(f)
                  /\ Num(f) \in 1..31
               \/ /\ Len(f) = 2
                  /\ f[1] = " "
                  /\ f[2] \in Digits \ {"0"}

DayNum(f) == IF f[1] = " " THEN DigitVal(f[2]) ELSE Num(f)

IsLeap(y) == (y % 4 = 0 /\ y % 100 # 0) \/ y % 400 = 0

DaysInMonth(y, m) ==
    IF m = 2 THEN (IF IsLeap(y) THEN 29 ELSE 28)
    ELSE IF m \in {4, 6, 9, 11} THEN 30 ELSE 31

ParseDate(s) ==
    LET f == Split(s, << >>)
    IN  IF Len(f) = 3 /\ YearField(f[1]) /\ MonthField(f[2]) /\ DayField(f[3])
        THEN LET y == Num(f[1])
                 m == Num(f[2])
                 d == DayNum(f[3])
             IN  IF y >= 1 /\ d <= DaysInMonth(y, m) THEN << y, m, d >> ELSE ValueError
        ELSE ValueError

\* date > date
DateGT(a, b) ==
    \/ a[1] > b[1]
    \/ a[1] = b[1] /\ a[2] > b[2]
    \/ a[1] = b[1] /\ a[2] = b[2] /\ a[3] > b[3]

(***************************************************************************)
(* load_products / load_posts: the publish gate and the sort.              *)
(***************************************************************************)
Published == << "p", "u", "b", "l", "i", "s", "h", "e", "d" >>

\* Mutant: the status compared without lower().
StatusPassesExact(row) == Get(row, "status", << >>) = Published

\* The status test of the loop body: FALSE when the row is skipped.
StatusPasses(row) == Lower(Get(row, "status", << >>)) = Published

\* Mutant: a parse failure skips the row.
DatePassesParsedOnly(row, now) ==
    IF Truthy(Get(row, "publish_date", None))
    THEN LET publish_date == ParseDate(row["publish_date"])
         IN  IF publish_date = ValueError THEN FALSE ELSE ~DateGT(publish_date, now)
    ELSE TRUE

\* The date test of the loop body: FALSE when the row is skipped.  A parse
\* failure (ValueError) is caught and passed over.
DatePasses(row, now) ==
    IF Truthy(Get(row, "publish_date", None))
    THEN LET publish_date == ParseDate(row["publish_date"])
         IN  IF publish_date = ValueError THEN TRUE ELSE ~DateGT(publish_date, now)
    ELSE TRUE

\* TRUE when the loop body appends the row.
Appends(row, now) == StatusPasses(row) /\ DatePasses(row, now)

\* The rows the loop appends, in row order.
RECURSIVE Accumulate(_, _)
Accumulate(rows, now) ==
    IF rows = << >> THEN << >>
    ELSE IF Appends(Head(rows), now) THEN << Head(rows) >> \o Accumulate(Tail(rows), now)
    ELSE Accumulate(Tail(rows), now)

\* key=lambda x: x.get('publish_date', '')
SortKey(row) == Get(row, "publish_date", << >>)

\* list.sort compares keys with <; None is not comparable (TypeError) and a
\* list of two or more elements compares every key at least once.
SortRaises(rows) == Len(rows) >= 2 /\ \E k \in DOMAIN rows : SortKey(rows[k]) = None

\* Mutant: the row goes in front of the rows with its own key.
RECURSIVE InsertDescBeforeEqual(_, _)
InsertDescBeforeEqual(sorted, row) ==
    IF sorted = << >> THEN << row >>
    ELSE IF ~StrLess(SortKey(row), SortKey(Head(sorted))) THEN << row >> \o sorted
    ELSE << Head(sorted) >> \o InsertDescBeforeEqual(Tail(sorted), row)

\* One step of a stable descending sort: row goes behind every row whose key
\* is not smaller than its own.
RECURSIVE InsertDesc(_, _)
InsertDesc(sorted, row) ==
    IF sorted = << >> THEN << row >>
    ELSE IF StrLess(SortKey(Head(sorted)), SortKey(row)) THEN << row >> \o sorted
    ELSE << Head(sorted) >> \o InsertDesc(Tail(sorted), row)

\* list.sort(key=..., reverse=True): stable, descending.
RECURSIVE SortDesc(_)
SortDesc(rows) ==
    IF rows = << >> THEN << >>
    ELSE InsertDesc(SortDesc(SubSeq(rows, 1, Len(rows) - 1)), rows[Len(rows)])

(***************************************************************************)
(* render_template.  A template body and a rendered page are sequences of  *)
(* segments; a placeholder "{{ key }}" is a segment of its own.  A Python  *)
(* value is a record: kind "str" with its text, or kind "dict" / "list"    *)
(* with the rows it holds.                                                 *)
(***************************************************************************)
StrVal(t) == [kind |-> "str", text |-> t, recs |-> << >>]

DictVal(row) == [kind |-> "dict", text |-> "", recs |-> << row >>]

ListVal(rows) == [kind |-> "list", text |-> "", recs |-> rows]

\* str(value): a string is its own text, a dict or list prints its repr.
Str(value) ==
    IF value.kind = "str" THEN [seg |-> "text", text |-> value.text, recs |-> << >>]
    ELSE [seg |-> "repr", text |-> value.kind, recs |-> value.recs]

Text(t) == [seg |-> "text", text |-> t, recs |-> << >>]

\* "{{ " + key + " }}"
Placeholder(key) == Text("{{ " \o key \o " }}")

Keys(items) == {items[k].key : k \in DOMAIN items}

\* dict[key] = value on an insertion-ordered dict: an existing key keeps its
\* position and takes the new value, a new key goes last.
SetItem(items, key, value) ==
    IF key \in Keys(items)
    THEN [k \in DOMAIN items |->
            IF items[k].key = key THEN [key |-> key, value |-> value] ELSE items[k]]
    ELSE Append(items, [key |-> key, value |-> value])

\* context.update(other)
RECURSIVE Update(_, _)
Update(context, other) ==
    IF other = << >> THEN context
    ELSE Update(SetItem(context, Head(other).key, Head(other).value), Tail(other))

\* content.replace(placeholder, str(value))
Replace(content, key, value) ==
    [k \in DOMAIN content |->
        IF content[k] = Placeholder(key) THEN Str(value) ELSE content[k]]

\* for key, value in context.items(): content = content.replace(...)
RECURSIVE ReplaceAll(_, _)
ReplaceAll(content, items) ==
    IF items = << >> THEN content
    ELSE ReplaceAll(Replace(content, Head(items).key, Head(items).value), Tail(items))

\* The merge of render_template: the site config is laid over the context.
Merge(context, config) == Update(context, config)

\* render_template(template_name, context), given the template's body.
Render(body, context, config) == ReplaceAll(body, Merge(context, config))

\* dict.get / dict[key] on the site config (absent keys take the default).
ConfigGet(config, key, default) ==
    IF key \in Keys(config)
    THEN config[CHOOSE k \in DOMAIN config : config[k].key = key].value.text
    ELSE default

(***************************************************************************)
(* Output paths and URLs.  A slug holds only [a-z0-9-], so a path is the   *)
(* pair of its directory and its file name.                                *)
(***************************************************************************)
DotHtml == << ".", "h", "t", "m", "l" >>

DotXml == << ".", "x", "m", "l" >>

IndexHtml == << "i", "n", "d", "e", "x" >> \o DotHtml

Path(dir, file) == [dir |-> dir, file |-> file]

OutputRoot == Path("", << >>)

HomePath == Path("", IndexHtml)

ProductsIndexPath == Path("products", IndexHtml)

BlogIndexPath == Path("blog", IndexHtml)

SitemapPath == Path("", << "s", "i", "t", "e", "m", "a", "p" >> \o DotXml)

RssPath == Path("", << "r", "s", "s" >> \o DotXml)

\* f"products/{product_slug}.html" of generate_pages
ProductPath(product) == Path("products", Slug(product["title"]) \o DotHtml)

\* f"blog/{post_slug}.html" of generate_pages
PostPath(post) == Path("blog", Slug(post["title"]) \o DotHtml)

Url(base, dir, file) == [base |-> base, dir |-> dir, file |-> file]

\* Mutant: the sitemap derives the slug as title.lower().replace(' ', '-').
SitemapProductUrlSpaces(config, product) ==
    Url(ConfigGet(config, "base_url", ""), "products",
        [k \in DOMAIN product["title"] |->
            IF product["title"][k] = " " THEN "-" ELSE LowerChar(product["title"][k])]
        \o DotHtml)

\* f"{base_url}/products/{product_slug}.html" of generate_sitemap
SitemapProductUrl(config, product) ==
    Url(ConfigGet(config, "base_url", ""), "products", Slug(product["title"]) \o DotHtml)

\* f"{base_url}/blog/{post_slug}.html" of generate_sitemap
SitemapPostUrl(config, post) ==
    Url(ConfigGet(config, "base_url", ""), "blog", Slug(post["title"]) \o DotHtml)

\* f"{base_url}/blog/{post_slug}.html" of generate_rss
RssLink(config, post) ==
    Url(ConfigGet(config, "base_url", ""), "blog", Slug(post["title"]) \o DotHtml)

(***************************************************************************)
(* The documents generate_sitemap and generate_rss build.                  *)
(***************************************************************************)
FeaturedLimit == 4

RecentLimit == 3

RssLimit == 10

\* seq[:n]
Prefix(seq, n) == SubSeq(seq, 1, IF Len(seq) < n THEN Len(seq) ELSE n)

\* add_sitemap_url
UrlEntry(loc, priority, changefreq, now) ==
    [loc |-> loc, priority |-> priority, changefreq |-> changefreq, lastmod |-> now]

SitemapProducts(config, rows, now) ==
    [k \in DOMAIN rows |-> UrlEntry(SitemapProductUrl(config, rows[k]), "0.8", "weekly", now)]

SitemapPosts(config, rows, now) ==
    [k \in DOMAIN rows |-> UrlEntry(SitemapPostUrl(config, rows[k]), "0.7", "monthly", now)]

\* Mutant: the posts are added before the products.
SitemapDocPostsFirst(config, prods, psts, now) ==
    << UrlEntry(Url(ConfigGet(config, "base_url", ""), "", << >>), "1.0", "daily", now) >>
        \o SitemapPosts(config, psts, now)
        \o SitemapProducts(config, prods, now)

\* The children of <urlset>, in document order.
SitemapDoc(config, prods, psts, now) ==
    << UrlEntry(Url(ConfigGet(config, "base_url", ""), "", << >>), "1.0", "daily", now) >>
        \o SitemapProducts(config, prods, now)
        \o SitemapPosts(config, psts, now)

\* One <item> of the channel.
RssItem(config, post) ==
    [title |-> post["title"],
     description |-> Get(post, "excerpt", << >>),
     link |-> RssLink(config, post),
     pubDate |-> Get(post, "publish_date", << >>)]

\* Mutant: the channel takes every post.
RssItemsAll(config, psts) == [k \in DOMAIN psts |-> RssItem(config, psts[k])]

\* for post in self.posts[:10]
RssItems(config, psts) ==
    LET latest == Prefix(psts, RssLimit)
    IN  [k \in DOMAIN latest |-> RssItem(config, latest[k])]

RssDoc(config, psts) ==
    [title |-> ConfigGet(config, "title", ""),
     description |-> ConfigGet(config, "description", ""),
     link |-> ConfigGet(config, "base_url", ""),
     items |-> RssItems(config, psts)]

(***************************************************************************)
(* The pages of generate_pages: template name and page context.            *)
(***************************************************************************)
Item(key, value) == [key |-> key, value |-> value]

HomeContext(prods, psts) ==
    << Item("featured_products", ListVal(Prefix(prods, FeaturedLimit))),
       Item("recent_posts", ListVal(Prefix(psts, RecentLimit))) >>

ProductsIndexContext(prods) == << Item("products", ListVal(prods)) >>

ProductContext(product) == << Item("product", DictVal(product)) >>

BlogIndexContext(psts) == << Item("posts", ListVal(psts)) >>

PostContext(post) == << Item("post", DictVal(post)) >>

(***************************************************************************)
(* The inputs of a build: the files of data/ and site/templates/.          *)
(***************************************************************************)
MaxRows == 2

MaxLong == 11

MixedCase == << "P", "u", "b", "l", "i", "s", "h", "e", "d" >>

Draft == << "d", "r", "a", "f", "t" >>

DateToday == << "2", "0", "2", "4", "-", "0", "3", "-", "1", "0" >>

DateFuture == << "2", "0", "2", "4", "-", "0", "3", "-", "1", "1" >>

DateUnpadded == << "2", "0", "2", "4", "-", "3", "-", "9" >>

DateWords == << "n", "e", "x", "t", " ", "w", "e", "e", "k" >>

Widget == << "W", "i", "d", "g", "e", "t" >>

WidgetBang == << "w", "i", "d", "g", "e", "t", "!" >>

IndexTitle == << "I", "n", "d", "e", "x" >>

Cells(status, date, title) == [status |-> status, date |-> date, title |-> title]

\* The cells of one row of a file that has a publish_date column.  A short
\* row leaves the column None.
DatedCells ==
    { Cells(Published, None, Widget),
      Cells(Published, << >>, Widget),
      Cells(Published, DateToday, Widget),
      Cells(Published, DateFuture, Widget),
      Cells(Published, DateUnpadded, Widget),
      Cells(Published, DateWords, Widget),
      Cells(MixedCase, DateToday, WidgetBang),
      Cells(Draft, << >>, Widget),
      Cells(Published, << >>, IndexTitle) }

\* The cells of one row of a file that has no publish_date column.
UndatedCells ==
    { Cells(Published, << >>, Widget),
      Cells(Draft, << >>, Widget) }

\* The dict csv.DictReader yields for the row on line `line`.
Row(line, cells, dated) ==
    IF dated
    THEN [line |-> line, status |-> cells.status, title |-> cells.title,
          publish_date |-> cells.date]
    ELSE [line |-> line, status |-> cells.status, title |-> cells.title]

ShortFiles ==
    UNION { { [k \in 1..n |-> Row(k, f[k], TRUE)] : f \in [1..n -> DatedCells] }
            : n \in 0..MaxRows }
    \cup
    UNION { { [k \in 1..n |-> Row(k, f[k], FALSE)] : f \in [1..n -> UndatedCells] }
            : n \in 1..MaxRows }

\* Row k of a long file: published, dates in a repeating pattern, titles
\* "P0".."P9" in turn.
LongCells(k) ==
    Cells(Published,
          IF k % 3 = 0 THEN DateToday ELSE IF k % 3 = 1 THEN << >> ELSE DateUnpadded,
          << "P", Chars[Code("0") + (k % 10)] >>)

LongFiles == { [k \in 1..n |-> Row(k, LongCells(k), TRUE)] : n \in RssLimit..MaxLong }

Missing == << >>

Present(contents) == << contents >>

\* site.yml
ConfigPlain ==
    << Item("title", StrVal("Site")),
       Item("description", StrVal("A shop")),
       Item("base_url", StrVal("https://shop.example")) >>

\* site.yml with a key that is also a page context key
ConfigClash == Append(ConfigPlain, Item("product", StrVal("Promo")))

ConfigFiles == {Missing, Present(ConfigPlain), Present(ConfigClash)}

\* The plain file: one published, undated row titled "Index".
PlainFile == << Row(1, Cells(Published, << >>, IndexTitle), TRUE) >>

\* One content kind varies row by row, or is long, while the other is
\* missing, empty or plain.
DataDirs ==
    LET varied == {Missing} \cup {Present(f) : f \in ShortFiles \cup LongFiles}
        fixed  == {Missing, Present(<< >>), Present(PlainFile)}
    IN  { [config |-> c, products |-> p, posts |-> q] :
            c \in ConfigFiles, p \in varied, q \in fixed }
        \cup
        { [config |-> c, products |-> p, posts |-> q] :
            c \in ConfigFiles, p \in fixed, q \in varied }

Todays == { << 2024, 3, 10 >> }

\* The template bodies of site/templates/.
TemplateBody(name) ==
    CASE name = "index.html" ->
           << Text("<h1>"), Placeholder("title"), Text("</h1>"),
              Placeholder("featured_products"), Placeholder("recent_posts") >>
      [] name = "products_index.html" ->
           << Placeholder("title"), Placeholder("products") >>
      [] name = "product.html" ->
           << Placeholder("title"), Placeholder("product"), Placeholder("missing") >>
      [] name = "blog_index.html" ->
           << Placeholder("description"), Placeholder("posts") >>
      [] name = "post.html" ->
           << Placeholder("post"), Placeholder("base_url") >>

(***************************************************************************)
(* State.                                                                  *)
(***************************************************************************)
VARIABLES
    pc,           \* the statement of build() that runs next, or "done"
    stage,        \* inside generate_pages: the page that is written next
    idx,          \* inside generate_pages: the index of the next detail page
    error,        \* "" or the exception that ended the build
    site_config,  \* self.site_config
    products,     \* self.products
    posts,        \* self.posts
    today,        \* the date datetime.now() gives during the build
    data,         \* the files of data/: Missing or Present(contents)
    pages,        \* the HTML files of _site/: path -> content
    sitemap,      \* _site/sitemap.xml: << >> until written
    rss,          \* _site/rss.xml: << >> until written
    assets,       \* TRUE once site/assets was copied to _site/assets
    outputExists, \* whether _site/ exists
    log           \* the operations this build performed on _site/, in order

vars == << pc, stage, idx, error, site_config, products, posts, today, data,
           pages, sitemap, rss, assets, outputExists, log >>

\* Mutant: the posts are loaded after the pages are generated.
BuildStepsPostsLate ==
    << "clean", "load_config", "load_products", "generate_pages", "load_posts",
       "generate_sitemap", "generate_rss", "copy_assets" >>

\* The statements of build(), in order.
BuildSteps ==
    << "clean", "load_config", "load_products", "load_posts",
       "generate_pages", "generate_sitemap", "generate_rss", "copy_assets" >>

After(step) ==
    LET k == CHOOSE j \in DOMAIN BuildSteps : BuildSteps[j] = step
    IN  IF k = Len(BuildSteps) THEN "done" ELSE BuildSteps[k + 1]

Running(step) == pc = step /\ error = ""

NoPages == [q \in {} |-> << >>]

StalePages == [q \in {HomePath} |-> << Text("stale") >>]

\* Mutant: a file that exists is left as it is.
WriteFileKeep(files, path, content) ==
    [q \in DOMAIN files \cup {path} |-> IF q \in DOMAIN files THEN files[q] ELSE content]

\* open(path, "w").write(content)
WriteFile(files, path, content) ==
    [q \in DOMAIN files \cup {path} |-> IF q = path THEN content ELSE files[q]]

Op(op, path, page, line) == [op |-> op, path |-> path, page |-> page, line |-> line]

Init ==
    /\ pc = BuildSteps[1]
    /\ stage = ""
    /\ idx = 0
    /\ error = ""
    /\ site_config = << >>
    /\ products = << >>
    /\ posts = << >>
    /\ today \in Todays
    /\ data \in DataDirs
    /\ outputExists \in BOOLEAN
    /\ pages = IF outputExists THEN StalePages ELSE NoPages
    /\ sitemap = << >>
    /\ rss = << >>
    /\ assets = FALSE
    /\ log = << >>

Raise(exception) ==
    /\ error' = exception
    /\ UNCHANGED << pc, stage, idx >>

Advance == 
    /\ pc' = After(pc)
    /\ UNCHANGED << stage, idx, error >>

\* build(): if self.output_dir.exists(): shutil.rmtree(...); self.output_dir.mkdir()
Clean ==
    /\ Running("clean")
    /\ pages' = NoPages
    /\ outputExists' = TRUE
    /\ log' = log \o (IF outputExists THEN << Op("rmtree", OutputRoot, "", 0) >> ELSE << >>)
                  \o << Op("mkdir", OutputRoot, "", 0) >>
    /\ Advance
    /\ UNCHANGED << site_config, products, posts, today, data, sitemap, rss, assets >>

LoadConfig ==
    /\ Running("load_config")
    /\ data.config # Missing
    /\ site_config' = data.config[1]
    /\ Advance
    /\ UNCHANGED << products, posts, today, data, pages, sitemap, rss, assets,
                    outputExists, log >>

\* open() of a missing data file raises FileNotFoundError.
DataSourceMissing ==
    /\ \/ Running("load_config") /\ data.config = Missing
       \/ Running("load_products") /\ data.products = Missing
       \/ Running("load_posts") /\ data.posts = Missing
    /\ Raise("FileNotFoundError")
    /\ UNCHANGED << site_config, products, posts, today, data, pages, sitemap, rss,
                    assets, outputExists, log >>

LoadProducts ==
    /\ Running("load_products")
    /\ data.products # Missing
    /\ LET appended == products \o Accumulate(data.products[1], today)
       IN  IF SortRaises(appended)
           THEN /\ products' = appended
                /\ Raise("TypeError")
           ELSE /\ products' = SortDesc(appended)
                /\ Advance
    /\ UNCHANGED << site_config, posts, today, data, pages, sitemap, rss, assets,
                    outputExists, log >>

LoadPosts ==
    /\ Running("load_posts")
    /\ data.posts # Missing
    /\ LET appended == posts \o Accumulate(data.posts[1], today)
       IN  IF SortRaises(appended)
           THEN /\ posts' = appended
                /\ Raise("TypeError")
           ELSE /\ posts' = SortDesc(appended)
                /\ Advance
    /\ UNCHANGED << site_config, products, today, data, pages, sitemap, rss, assets,
                    outputExists, log >>

(***************************************************************************)
(* generate_pages, one action per file written.                            *)
(***************************************************************************)
InPages(st) == Running("generate_pages") /\ stage = st

\* The statement after generate_pages.
LeavePages ==
    /\ pc' = After(pc)
    /\ stage' = ""
    /\ idx' = 0
    /\ error' = error

GoTo(st, k) ==
    /\ stage' = st
    /\ idx' = k
    /\ UNCHANGED << pc, error >>

PageUnchanged ==
    UNCHANGED << site_config, products, posts, today, data, sitemap, rss, assets,
                 outputExists >>

\* (self.output_dir / "products").mkdir(parents=True, exist_ok=True) ...
MakeDirs ==
    /\ InPages("")
    /\ log' = log \o << Op("mkdir", Path("products", << >>), "", 0),
                        Op("mkdir", Path("blog", << >>), "", 0),
                        Op("mkdir", Path("assets", << >>), "", 0) >>
    /\ GoTo("home", 0)
    /\ pages' = pages
    /\ PageUnchanged

HomePage == Render(TemplateBody("index.html"), HomeContext(products, posts), site_config)

ProductsIndexPage ==
    Render(TemplateBody("products_index.html"), ProductsIndexContext(products), site_config)

ProductPage(product) ==
    Render(TemplateBody("product.html"), ProductContext(product), site_config)

BlogIndexPage ==
    Render(TemplateBody("blog_index.html"), BlogIndexContext(posts), site_config)

PostPage(post) == Render(TemplateBody("post.html"), PostContext(post), site_config)

WriteHome ==
    /\ InPages("home")
    /\ pages' = WriteFile(pages, HomePath, HomePage)
    /\ log' = Append(log, Op("write", HomePath, "home", 0))
    /\ GoTo("products_index", 0)
    /\ PageUnchanged

WriteProductsIndex ==
    /\ InPages("products_index")
    /\ pages' = WriteFile(pages, ProductsIndexPath, ProductsIndexPage)
    /\ log' = Append(log, Op("write", ProductsIndexPath, "products_index", 0))
    /\ IF products = << >> THEN GoTo("blog_index", 0) ELSE GoTo("product", 1)
    /\ PageUnchanged

\* One pass of the loop  for product in self.products
WriteProduct ==
    /\ InPages("product")
    /\ LET product == products[idx]
       IN  /\ pages' = WriteFile(pages, ProductPath(product), ProductPage(product))
           /\ log' = Append(log, Op("write", ProductPath(product), "product", product["line"]))
    /\ IF idx < Len(products) THEN GoTo("product", idx + 1) ELSE GoTo("blog_index", 0)
    /\ PageUnchanged

WriteBlogIndex ==
    /\ InPages("blog_index")
    /\ pages' = WriteFile(pages, BlogIndexPath, BlogIndexPage)
    /\ log' = Append(log, Op("write", BlogIndexPath, "blog_index", 0))
    /\ IF posts = << >> THEN LeavePages ELSE GoTo("post", 1)
    /\ PageUnchanged

\* One pass of the loop  for post in self.posts
WritePost ==
    /\ InPages("post")
    /\ LET post == posts[idx]
       IN  /\ pages' = WriteFile(pages, PostPath(post), PostPage(post))
           /\ log' = Append(log, Op("write", PostPath(post), "post", post["line"]))
    /\ IF idx < Len(posts) THEN GoTo("post", idx + 1) ELSE LeavePages
    /\ PageUnchanged

\* render_template: open() of a template that is not in site/templates/
\* raises FileNotFoundError before the page is written.
TemplateNotFound ==
    /\ Running("generate_pages")
    /\ stage \in {"home", "products_index", "product", "blog_index", "post"}
    /\ Raise("FileNotFoundError")
    /\ UNCHANGED << site_config, products, posts, today, data, pages, sitemap, rss,
                    assets, outputExists, log >>

(***************************************************************************)
(* generate_sitemap, generate_rss, copy_assets.                            *)
(***************************************************************************)
GenerateSitemap ==
    /\ Running("generate_sitemap")
    /\ sitemap' = SitemapDoc(site_config, products, posts, today)
    /\ log' = Append(log, Op("write", SitemapPath, "sitemap", 0))
    /\ Advance
    /\ UNCHANGED << site_config, products, posts, today, data, pages, rss, assets,
                    outputExists >>

GenerateRss ==
    /\ Running("generate_rss")
    /\ rss' = << RssDoc(site_config, posts) >>
    /\ log' = Append(log, Op("write", RssPath, "rss", 0))
    /\ Advance
    /\ UNCHANGED << site_config, products, posts, today, data, pages, sitemap, assets,
                    outputExists >>

\* if self.assets_dir.exists(): shutil.copytree(...)
CopyAssets ==
    /\ Running("copy_assets")
    /\ \E exists \in BOOLEAN :
          /\ assets' = exists
          /\ log' = IF exists
                    THEN Append(log, Op("copytree", Path("assets", << >>), "assets", 0))
                    ELSE log
    /\ Advance
    /\ UNCHANGED << site_config, products, posts, today, data, pages, sitemap, rss,
                    outputExists >>

Next ==
    \/ Clean
    \/ LoadConfig
    \/ DataSourceMissing
    \/ LoadProducts
    \/ LoadPosts
    \/ MakeDirs
    \/ WriteHome
    \/ WriteProductsIndex
    \/ WriteProduct
    \/ WriteBlogIndex
    \/ WritePost
    \/ TemplateNotFound
    \/ GenerateSitemap
    \/ GenerateRss
    \/ CopyAssets

Spec == Init /\ [][Next]_vars


(***************************************************************************)
(* Properties.                                                             *)
(***************************************************************************)
StepIndex(step) ==
    IF step = "done" THEN Len(BuildSteps) + 1
    ELSE CHOOSE j \in DOMAIN BuildSteps : BuildSteps[j] = step

\* build() has returned from the statement `step`.
Returned(step) == StepIndex(pc) > StepIndex(step)

Done == pc = "done"

FileRows(file) == IF file = Missing THEN << >> ELSE file[1]

In(row, collection) == \E k \in DOMAIN collection : collection[k] = row

Last(seq) == seq[Len(seq)]

IsPrefix(a, b) == Len(a) <= Len(b) /\ SubSeq(b, 1, Len(a)) = a

StatusIsPublished(row) == Lower(row["status"]) = Published

HasNoDate(row) == Get(row, "publish_date", << >>) \in {<< >>, None}

Unparseable(row) == ~HasNoDate(row) /\ ParseDate(row["publish_date"]) = ValueError

ParsesNotAfter(row, date) ==
    /\ ~HasNoDate(row)
    /\ ParseDate(row["publish_date"]) # ValueError
    /\ ~DateGT(ParseDate(row["publish_date"]), date)

\* The eligibility the specification states.
StatedEligible(row) ==
    StatusIsPublished(row) /\ (HasNoDate(row) \/ ParsesNotAfter(row, today))

\* The eligibility with the unparseable dates let through.
Eligible(row) ==
    StatusIsPublished(row)
        /\ (HasNoDate(row) \/ Unparseable(row) \/ ParsesNotAfter(row, today))

GateHolds(file, collection, eligible(_)) ==
    \A k \in DOMAIN FileRows(file) :
        In(FileRows(file)[k], collection) <=> eligible(FileRows(file)[k])

\* C1 as stated: a row is in the loaded collection iff its status is
\* 'published' in any case and it has no publish_date or one that parses as a
\* date not after the build date.
C1_GateAsStated ==
    /\ Returned("load_products") => GateHolds(data.products, products, StatedEligible)
    /\ Returned("load_posts") => GateHolds(data.posts, posts, StatedEligible)

\* C1 amended: whenever load_products / load_posts returns, a row is in the
\* collection iff its status is 'published' in any case and it has no
\* publish_date, or one that does not parse, or one that parses as a date not
\* after the build date.
C1_Gate ==
    /\ Returned("load_products") => GateHolds(data.products, products, Eligible)
    /\ Returned("load_posts") => GateHolds(data.posts, posts, Eligible)

C1_Witness ==
    /\ Returned("load_posts")
    /\ \E k \in DOMAIN FileRows(data.products) :
          LET row == FileRows(data.products)[k]
          IN  StatusIsPublished(row) /\ Unparseable(row) /\ In(row, products)
    /\ \E k \in DOMAIN FileRows(data.products) :
          LET row == FileRows(data.products)[k]
          IN  StatusIsPublished(row) /\ ~Eligible(row) /\ ~In(row, products)

\* The segments of a rendered page that stand where the template has the
\* placeholder of `key` all hold the text of `value`.
PlaceholderShows(body, content, key, value) ==
    \A k \in DOMAIN body : body[k] = Placeholder(key) => content[k] = Str(value)

\* C2: the page context wins over the site config on a key collision: right
\* after a product page is written, the place of '{{ product }}' in it holds
\* the product of the page context, whatever the site config holds.
C2_PageContextWins ==
    (log # << >> /\ Last(log).page = "product") =>
        \A k \in DOMAIN products :
            products[k]["line"] = Last(log).line =>
                PlaceholderShows(TemplateBody("product.html"), pages[Last(log).path],
                                 "product", DictVal(products[k]))

\* The build failed on a missing data or config source.
DataSourceFailed ==
    /\ error = "FileNotFoundError"
    /\ pc \in {"load_config", "load_products", "load_posts"}

\* C3 as stated: when a required source is missing the build fails before
\* any operation on the output tree, the reset of the output root included.
C3_NothingTouched == DataSourceFailed => log = << >>

\* C3 amended: when a required source is missing the build fails before any
\* page, sitemap, feed or asset is written; the output root has been reset
\* (an existing tree removed, the empty root created) and nothing else.
C3_NothingWritten ==
    DataSourceFailed =>
        /\ \A k \in DOMAIN log : log[k].op \in {"rmtree", "mkdir"} /\ log[k].path = OutputRoot
        /\ Last(log) = Op("mkdir", OutputRoot, "", 0)
        /\ pages = NoPages
        /\ sitemap = << >>
        /\ rss = << >>
        /\ ~assets

C3_Witness ==
    /\ DataSourceFailed
    /\ pc = "load_posts"
    /\ products # << >>
    /\ Len(log) = 2

DetailWritten(dir, file) ==
    /\ Path(dir, file) \in DOMAIN pages
    /\ \E k \in DOMAIN log :
          /\ log[k].op = "write"
          /\ log[k].page \in {"product", "post"}
          /\ log[k].path = Path(dir, file)

\* C4: after a successful build every product or post URL of sitemap.xml and
\* every item link of rss.xml names a detail page file that generate_pages
\* wrote under products/ or blog/.
C4_LinksResolve ==
    Done =>
        /\ \A k \in 2..Len(sitemap) :
              /\ sitemap[k].loc.base = ConfigGet(site_config, "base_url", "")
              /\ sitemap[k].loc.dir \in {"products", "blog"}
              /\ DetailWritten(sitemap[k].loc.dir, sitemap[k].loc.file)
        /\ \A k \in DOMAIN rss[1].items :
              /\ rss[1].items[k].link.base = ConfigGet(site_config, "base_url", "")
              /\ rss[1].items[k].link.dir = "blog"
              /\ DetailWritten("blog", rss[1].items[k].link.file)

C4_Witness ==
    /\ Done
    /\ \E k \in DOMAIN products : Slug(products[k]["title"]) # Lower(products[k]["title"])
    /\ posts # << >>
    /\ rss[1].items # << >>

Sorted(collection) ==
    /\ \A k \in 1..(Len(collection) - 1) :
          ~StrLess(SortKey(collection[k]), SortKey(collection[k + 1]))
    /\ \A j, k \in DOMAIN collection :
          (j < k /\ Get(collection[j], "publish_date", << >>) \in {<< >>, None})
              => Get(collection[k], "publish_date", << >>) \in {<< >>, None}
    /\ \A j, k \in DOMAIN collection :
          (j < k /\ SortKey(collection[j]) = SortKey(collection[k]))
              => collection[j]["line"] < collection[k]["line"]

\* The collection holds the rows of the file that are in it, once each.
Rearranges(file, collection) ==
    /\ \A k \in DOMAIN collection : In(collection[k], FileRows(file))
    /\ \A j, k \in DOMAIN collection : j # k => collection[j] # collection[k]
    /\ \A k \in DOMAIN FileRows(file) :
          Eligible(FileRows(file)[k]) => In(FileRows(file)[k], collection)

RestProcessed(file, collection, k) ==
    \A j \in DOMAIN FileRows(file) :
        j > k => (In(FileRows(file)[j], collection) <=> Eligible(FileRows(file)[j]))

UnparseableKept(file, collection) ==
    \A k \in DOMAIN FileRows(file) :
        (StatusIsPublished(FileRows(file)[k]) /\ Unparseable(FileRows(file)[k]))
            => In(FileRows(file)[k], collection) /\ RestProcessed(file, collection, k)

\* C6: a 'published' row whose publish_date is not empty and does not parse
\* is in the collection; the load raises nothing for it (a load fails only
\* on a missing file or on a None sort key) and the rows behind it are
\* processed.
C6_UnparseableIncluded ==
    /\ Returned("load_products") => UnparseableKept(data.products, products)
    /\ Returned("load_posts") => UnparseableKept(data.posts, posts)
    /\ (pc = "load_products" /\ error # "" /\ data.products # Missing)
          => error = "TypeError" /\ SortRaises(products)
    /\ (pc = "load_posts" /\ error # "" /\ data.posts # Missing)
          => error = "TypeError" /\ SortRaises(posts)

C6_Witness ==
    /\ Returned("load_products")
    /\ Len(products) = 2
    /\ Unparseable(FileRows(data.products)[1])
    /\ In(FileRows(data.products)[1], products)
    /\ In(FileRows(data.products)[2], products)

\* C7: the channel of rss.xml holds min(10, number of posts) items, and item
\* k is made from record k of the posts collection.
C7_RssPrefix ==
    rss # << >> =>
        LET items == rss[1].items
        IN  /\ Len(items) = (IF Len(posts) < 10 THEN Len(posts) ELSE 10)
            /\ \A k \in DOMAIN items :
                  /\ items[k].title = posts[k]["title"]
                  /\ items[k].pubDate = Get(posts[k], "publish_date", << >>)
                  /\ items[k].link.file = Slug(posts[k]["title"]) \o DotHtml

C7_Witness ==
    /\ rss # << >>
    /\ Len(posts) > 10
    /\ Len(rss[1].items) = 10

\* C8: sitemap.xml holds 1 + products + posts url entries: the site root,
\* then the products in collection order, then the posts in collection order.
C8_SitemapOrder ==
    sitemap # << >> =>
        /\ Len(sitemap) = 1 + Len(products) + Len(posts)
        /\ sitemap[1].loc = Url(ConfigGet(site_config, "base_url", ""), "", << >>)
        /\ \A k \in DOMAIN products :
              /\ sitemap[1 + k].loc.dir = "products"
              /\ sitemap[1 + k].loc.file = Slug(products[k]["title"]) \o DotHtml
        /\ \A k \in DOMAIN posts :
              /\ sitemap[1 + Len(products) + k].loc.dir = "blog"
              /\ sitemap[1 + Len(products) + k].loc.file = Slug(posts[k]["title"]) \o DotHtml

C8_Witness ==
    /\ sitemap # << >>
    /\ Len(products) = 2
    /\ Len(FileRows(data.products)) = 2
    /\ posts # << >>
    /\ Slug(posts[1]["title"]) # Slug(products[1]["title"])

PageKinds == {"home", "products_index", "product", "blog_index", "post"}

IsPageWrite(entry) == entry.op = "write" /\ entry.page \in PageKinds

PageWrites == SelectSeq(log, IsPageWrite)

\* The page writes of a whole generate_pages, in the stated order.
StatedWrites ==
    << Op("write", HomePath, "home", 0),
       Op("write", ProductsIndexPath, "products_index", 0) >>
    \o [k \in DOMAIN products |->
          Op("write", Path("products", Slug(products[k]["title"]) \o DotHtml),
             "product", products[k]["line"])]
    \o << Op("write", BlogIndexPath, "blog_index", 0) >>
    \o [k \in DOMAIN posts |->
          Op("write", Path("blog", Slug(posts[k]["title"]) \o DotHtml),
             "post", posts[k]["line"])]

\* The last record of the collection whose slug is that of record k.
LastWithSlug(collection, k) ==
    LET slugs == [j \in DOMAIN collection |-> Slug(collection[j]["title"])]
        same  == {j \in DOMAIN collection : slugs[j] = slugs[k]}
    IN  CHOOSE j \in same : \A i \in same : i <= j

\* C9: generate_pages writes home, products index, the product pages in
\* collection order, blog index, the post pages in collection order, one
\* write per record; afterwards a detail path holds the page of the last
\* record with that slug.
C9_WriteOrder ==
    /\ (Returned("load_posts") /\ Returned("load_products")) =>
          IsPrefix(PageWrites, StatedWrites)
    /\ Returned("generate_pages") =>
          /\ PageWrites = StatedWrites
          /\ \A k \in DOMAIN products :
                pages[Path("products", Slug(products[k]["title"]) \o DotHtml)]
                    = ProductPage(products[LastWithSlug(products, k)])
          /\ \A k \in DOMAIN posts :
                pages[Path("blog", Slug(posts[k]["title"]) \o DotHtml)]
                    = PostPage(posts[LastWithSlug(posts, k)])

C9_Witness ==
    /\ Returned("generate_pages")
    /\ Len(products) = 2
    /\ LastWithSlug(products, 1) = 2
    /\ ProductPage(products[1]) # ProductPage(products[2])
    /\ posts # << >>

\* C10: after a successful build products/index.html holds the products
\* index page and blog/index.html the blog index page.
C10_IndexPagesKept ==
    Done =>
        /\ pages[ProductsIndexPath] = ProductsIndexPage
        /\ pages[BlogIndexPath] = BlogIndexPage
====
